---- MODULE Spec2Model ----
(***************************************************************************)
(* Model of RSBP.py: the SkyboxPreview widget (orbit camera driven by      *)
(* pointer events, texture cache keyed by face, per-frame draw dispatch)   *)
(* and the SkyboxGenerator handlers that feed it (browse / rotate / flip / *)
(* bulk import / stretch image / mode switch).                             *)
(*                                                                         *)
(* Every handler runs to completion on the one GUI thread, so each handler *)
(* is one action.  drawFaceSpherical, whose loops a claim counts, is also  *)
(* modelled step by step (one action per loop iteration).                  *)
(*                                                                         *)
(* Abstractions: an image is its dimensions and its four corner pixels; a  *)
(* GL texture object is the image data uploaded into it (rows bottom-up);  *)
(* a texture coordinate is the point it is computed from.  A cancelled     *)
(* file dialog or a failed copy to the temp folder leaves the state as it   *)
(* was and is not an action of its own.                                    *)
(***************************************************************************)
EXTENDS Integers, Sequences, FiniteSets, TLC

(* ------------------------------ bounds --------------------------------- *)

\* Pointer coordinates delivered are k * CoordStep for k in -MaxCoordK..MaxCoordK.
CoordStep == 60
MaxCoordK == 2
\* Yaw is unbounded in the program; the model stops a drag that would leave
\* [-MaxYaw, MaxYaw].
MaxYaw == 150
\* GL texture names available to glGenTextures: 1..MaxHandles.
MaxHandles == 2
\* Files matched by one bulk import.
MaxBulk == 2
\* Tessellation factors tried by the step-by-step drawFaceSpherical.
MaxSub == 3

(* --------------------------- program constants ------------------------- *)

InitRotX == 20
InitRotY == -30
DefaultSubdivide == 20
PitchMax == 90
PitchMin == -90
TempSize == 512

FACE_NAMES == {"ft", "bk", "lf", "rt", "up", "dn"}
StretchKey == "stretch"

\* The faces the user loads images for in the model (a bound on the inputs).
InputFaces == {"ft", "up"}

\* Iteration order of the `faces` dict of drawSkybox.
DrawOrder == <<"ft", "bk", "rt", "lf", "up", "dn">>

\* verts_idx of each entry of the `faces` dict (0-based, as in the source).
FaceVerts(f) ==
    CASE f = "ft" -> <<0, 1, 2, 3>>
      [] f = "bk" -> <<5, 4, 7, 6>>
      [] f = "rt" -> <<4, 0, 3, 7>>
      [] f = "lf" -> <<1, 5, 6, 2>>
      [] f = "up" -> <<3, 2, 6, 7>>
      [] f = "dn" -> <<4, 5, 1, 0>>

\* The `vertices` list of drawSkybox with size = 1 (0-based index i is Vertices[i+1]).
Vertices ==
    << <<-1, -1, 1>>, <<1, -1, 1>>, <<1, 1, 1>>, <<-1, 1, 1>>,
       <<-1, -1, -1>>, <<1, -1, -1>>, <<1, 1, -1>>, <<-1, 1, -1>> >>

(* ------------------------------- state --------------------------------- *)

VARIABLES
    rot_x,            \* SkyboxPreview.rot_x (pitch, degrees)
    rot_y,            \* SkyboxPreview.rot_y (yaw, degrees)
    last_pos,         \* SkyboxPreview.last_pos: None or a QPoint
    textures,         \* SkyboxPreview.textures: dict key -> GL texture name
    use_spherical_uv, \* SkyboxPreview.use_spherical_uv
    subdivide,        \* SkyboxPreview.subdivide
    face_images,      \* SkyboxGenerator.face_images: face -> None or image
    stretch_image,    \* SkyboxGenerator.stretch_image: None or image
    six_mode,         \* radio_six.isChecked()
    update_pending,   \* a repaint requested by update() and not yet painted
    gpu,              \* GL server: live texture name -> texture object
    depth_mask,       \* GL server: depth writes enabled
    cull_face,        \* GL server: GL_CULL_FACE enabled
    gl_log,           \* the GL calls issued by the handler that ran last
    event,            \* the pointer event delivered last (x, y, phase)
    drag,             \* None, or the press that began the current drag
                      \*   (its x and the yaw at that moment)
    draw_pc,          \* position inside a step-by-step drawFaceSpherical
    draw_verts,       \* its verts_idx argument
    draw_i,           \* its loop variable i
    draw_j            \* its loop variable j

vars == <<rot_x, rot_y, last_pos, textures, use_spherical_uv, subdivide,
          face_images, stretch_image, six_mode, update_pending, gpu,
          depth_mask, cull_face, gl_log, event, drag,
          draw_pc, draw_verts, draw_i, draw_j>>

cameraVars == <<rot_x, rot_y, last_pos>>
pointerVars == <<event, drag>>
cacheVars == <<textures, gpu>>
imageVars == <<face_images, stretch_image>>
modeVars == <<six_mode, use_spherical_uv>>
glStateVars == <<depth_mask, cull_face>>
drawVars == <<draw_pc, draw_verts, draw_i, draw_j>>

(* --------------------------- optional values --------------------------- *)

\* Python's None and a present value, as sequences of length 0 and 1.
None == <<>>
Some(v) == <<v>>
IsNone(o) == Len(o) = 0
Val(o) == o[1]

\* An empty Python dict.
EmptyDict == [k \in {} |-> 0]
DictSet(d, k, v) == [x \in (DOMAIN d) \cup {k} |-> IF x = k THEN v ELSE d[x]]

Min(a, b) == IF a < b THEN a ELSE b
Max(a, b) == IF a > b THEN a ELSE b

(* ------------------------------ camera --------------------------------- *)

Coords == {k * CoordStep : k \in -MaxCoordK..MaxCoordK}

\* QPoint.__bool__: a QPoint is true unless it is null, i.e. (0, 0).
QPointBool(p) == ~(p[1] = 0 /\ p[2] = 0)

\* `if self.last_pos:` -- None is false, a QPoint is true unless null.
LastPosTruthy(lp) == ~IsNone(lp) /\ QPointBool(Val(lp))

ClampPitchUpperOnly(v) == Min(v, PitchMax)

\* max(min(rot_x, 90), -90)
ClampPitch(v) == Max(Min(v, PitchMax), PitchMin)

\* mousePressEvent: self.last_pos = event.pos()
MousePressEvent(x, y) ==
    /\ last_pos' = Some(<<x, y>>)
    /\ event' = [phase |-> "pressed", x |-> x, y |-> y]
    /\ drag' = Some([x |-> x, yaw |-> rot_y])
    /\ gl_log' = <<>>
    /\ UNCHANGED <<rot_x, rot_y, update_pending>>
    /\ UNCHANGED <<cacheVars, imageVars, modeVars, glStateVars, drawVars, subdivide>>

\* mouseMoveEvent
MouseMoveEvent(x, y) ==
    /\ event' = [phase |-> "moved", x |-> x, y |-> y]
    /\ gl_log' = <<>>
    /\ IF LastPosTruthy(last_pos)
       THEN LET dx == x - Val(last_pos)[1]
                dy == y - Val(last_pos)[2]
            IN /\ rot_y + dx <= MaxYaw
               /\ rot_y + dx >= -MaxYaw
               /\ rot_x' = ClampPitch(rot_x + dy)
               /\ rot_y' = rot_y + dx
               /\ last_pos' = Some(<<x, y>>)
               /\ update_pending' = TRUE
       ELSE UNCHANGED <<rot_x, rot_y, last_pos, update_pending>>
    /\ UNCHANGED drag
    /\ UNCHANGED <<cacheVars, imageVars, modeVars, glStateVars, drawVars, subdivide>>

\* mouseReleaseEvent: self.last_pos = None
MouseReleaseEvent(x, y) ==
    /\ last_pos' = None
    /\ event' = [phase |-> "released", x |-> x, y |-> y]
    /\ drag' = None
    /\ gl_log' = <<>>
    /\ UNCHANGED <<rot_x, rot_y, update_pending>>
    /\ UNCHANGED <<cacheVars, imageVars, modeVars, glStateVars, drawVars, subdivide>>

(* ----------------------------- render loop ----------------------------- *)

BoundForStretchFallback(tex, f) ==
    IF f \in DOMAIN tex /\ tex[f] # 0 THEN tex[f]
    ELSE IF "stretch" \in DOMAIN tex THEN tex["stretch"] ELSE 0

\* self.textures.get(face_name), then `if tex_id:` -- the name bound for a face.
BoundFor(tex, f) == IF f \in DOMAIN tex /\ tex[f] # 0 THEN tex[f] ELSE 0

DrawCallBindsNothing(tex, spherical, f) ==
    << <<"glBindTexture", 0>>,
       <<(IF spherical THEN "drawFaceSpherical" ELSE "drawFaceFlat"), FaceVerts(f)>> >>

\* One iteration of the loop of drawSkybox: bind the face's texture (or 0),
\* then call the draw routine of the current mode.
DrawCall(tex, spherical, f) ==
    << <<"glBindTexture", BoundFor(tex, f)>>,
       <<(IF spherical THEN "drawFaceSpherical" ELSE "drawFaceFlat"), FaceVerts(f)>> >>

RECURSIVE DrawFaces(_, _, _)
\* The loop of drawSkybox over faces.items(), from the k-th entry on.
DrawFaces(tex, spherical, k) ==
    IF k > Len(DrawOrder) THEN <<>>
    ELSE DrawCall(tex, spherical, DrawOrder[k]) \o DrawFaces(tex, spherical, k + 1)

\* drawSkybox
DrawSkybox(tex, spherical) ==
    << <<"glEnable", "GL_TEXTURE_2D">>, <<"glFrontFace", "GL_CW">> >>
    \o DrawFaces(tex, spherical, 1)
    \o << <<"glFrontFace", "GL_CCW">> >>

\* The GL calls of paintGL, in order.
PaintGLCalls(rx, ry, tex, spherical) ==
    << <<"glClear">>, <<"glLoadIdentity">>,
       <<"glRotatef", rx, <<1, 0, 0>>>>, <<"glRotatef", ry, <<0, 1, 0>>>>,
       <<"glDepthMask", FALSE>>, <<"glDisable", "GL_CULL_FACE">> >>
    \o DrawSkybox(tex, spherical)
    \o << <<"glEnable", "GL_CULL_FACE">>, <<"glDepthMask", TRUE>> >>

RECURSIVE DepthMaskAfter(_, _, _)
\* GL server: the depth mask after the first n calls of log, from value v.
DepthMaskAfter(log, n, v) ==
    IF n = 0 THEN v
    ELSE IF log[n][1] = "glDepthMask" THEN log[n][2]
    ELSE DepthMaskAfter(log, n - 1, v)

RECURSIVE CullFaceAfter(_, _, _)
\* GL server: whether GL_CULL_FACE is enabled after the first n calls of log.
CullFaceAfter(log, n, v) ==
    IF n = 0 THEN v
    ELSE IF log[n][1] = "glEnable" /\ log[n][2] = "GL_CULL_FACE" THEN TRUE
    ELSE IF log[n][1] = "glDisable" /\ log[n][2] = "GL_CULL_FACE" THEN FALSE
    ELSE CullFaceAfter(log, n - 1, v)

\* A texture object that has a name and no pixels yet.
EmptyTexture == [w |-> 0, h |-> 0, px |-> <<>>]

\* GL server, compatibility profile: glBindTexture of a name that is not in
\* use creates a texture object of that name.
BindAll(g, names) ==
    [n \in (DOMAIN g) \cup names |-> IF n \in DOMAIN g THEN g[n] ELSE EmptyTexture]

\* paintGL
PaintGL ==
    LET log == PaintGLCalls(rot_x, rot_y, textures, use_spherical_uv)
    IN /\ gl_log' = log
       /\ depth_mask' = DepthMaskAfter(log, Len(log), depth_mask)
       /\ cull_face' = CullFaceAfter(log, Len(log), cull_face)
       /\ gpu' = BindAll(gpu, {BoundFor(textures, f) : f \in FACE_NAMES} \ {0})
       /\ update_pending' = FALSE
       /\ UNCHANGED <<cameraVars, pointerVars, textures, imageVars, modeVars,
                      drawVars, subdivide>>

(* ------------------------------- images -------------------------------- *)

\* The images the user can pick from disk: width, height and the four corner
\* pixels <<top-left, top-right, bottom-left, bottom-right>>.
SourceImages == {[w |-> 4, h |-> 2, px |-> <<"a", "b", "c", "d">>]}

\* Image.resize((512, 512), LANCZOS), as used by copyToTemp and
\* browseStretchImage: the corners stay where they are.
Resize512(img) == [w |-> TempSize, h |-> TempSize, px |-> img.px]

\* Image.rotate(-90, expand=True): a quarter turn clockwise; width and height
\* swap, the bottom-left corner becomes the top-left one.
RotateImg(img) ==
    [w |-> img.h, h |-> img.w,
     px |-> <<img.px[3], img.px[1], img.px[4], img.px[2]>>]

\* Image.transpose(FLIP_LEFT_RIGHT)
FlipImg(img) ==
    [w |-> img.w, h |-> img.h,
     px |-> <<img.px[2], img.px[1], img.px[4], img.px[3]>>]

\* img.convert('RGBA').tobytes("raw", "RGBA", 0, -1) with img.size: the rows
\* bottom-up, as glTexImage2D takes them.
ToBytes(img) ==
    [w |-> img.w, h |-> img.h,
     px |-> <<img.px[3], img.px[4], img.px[1], img.px[2]>>]

(* ---------------------------- texture cache ---------------------------- *)

Names == 1..MaxHandles

\* The points of loadTexture at which a call can raise:
\*   "convert" -- pil_image.convert / tobytes (lines 152-153)
\*   "gen"     -- glGenTextures (line 158)
\*   "upload"  -- glTexImage2D (line 162)
\* and "none": the call returns normally.
AllOutcomes == {"none", "convert", "gen", "upload"}
OnlySuccess == {"none"}

\* GL server: glDeleteTextures([n]) releases n; a name not in use is ignored.
GlDeleteTextures(g, n) == [m \in (DOMAIN g) \ {n} |-> g[m]]

LoadTextureKeepOld(tex, g, face_name, pil_image, outcomes) ==
    LET unused == Names \ DOMAIN g
        logNew(n) == << <<"glGenTextures", n>>, <<"glBindTexture", n>>,
                        <<"glTexParameteri", "GL_TEXTURE_MIN_FILTER">>,
                        <<"glTexParameteri", "GL_TEXTURE_MAG_FILTER">> >>
    IN IF "none" \in outcomes
       THEN { [textures |-> DictSet(tex, face_name, n),
               gpu |-> DictSet(g, n, ToBytes(pil_image)),
               log |-> logNew(n) \o << <<"glTexImage2D", pil_image.w, pil_image.h>> >>,
               raised |-> FALSE, updated |-> TRUE] : n \in unused }
       ELSE {}

\* loadTexture(face_name, pil_image): the set of states it can leave behind.
\* Each is [textures, gpu, log (its GL calls), raised (left by an exception),
\* updated (self.update() was reached)].
LoadTexture(tex, g, face_name, pil_image, outcomes) ==
    LET had == face_name \in DOMAIN tex
        g1 == IF had THEN GlDeleteTextures(g, tex[face_name]) ELSE g
        log1 == IF had THEN << <<"glDeleteTextures", tex[face_name]>> >> ELSE <<>>
        unused == Names \ DOMAIN g1
        logNew(n) == log1 \o << <<"glGenTextures", n>>, <<"glBindTexture", n>>,
                                <<"glTexParameteri", "GL_TEXTURE_MIN_FILTER">>,
                                <<"glTexParameteri", "GL_TEXTURE_MAG_FILTER">> >>
        convertRaises ==
            IF "convert" \in outcomes
            THEN { [textures |-> tex, gpu |-> g, log |-> <<>>,
                    raised |-> TRUE, updated |-> FALSE] }
            ELSE {}
        genRaises ==
            IF "gen" \in outcomes
            THEN { [textures |-> tex, gpu |-> g1, log |-> log1,
                    raised |-> TRUE, updated |-> FALSE] }
            ELSE {}
        uploadRaises ==
            IF "upload" \in outcomes
            THEN { [textures |-> tex, gpu |-> DictSet(g1, n, EmptyTexture),
                    log |-> logNew(n), raised |-> TRUE, updated |-> FALSE]
                   : n \in unused }
            ELSE {}
        returns ==
            IF "none" \in outcomes
            THEN { [textures |-> DictSet(tex, face_name, n),
                    gpu |-> DictSet(g1, n, ToBytes(pil_image)),
                    log |-> logNew(n)
                            \o << <<"glTexImage2D", pil_image.w, pil_image.h>> >>,
                    raised |-> FALSE, updated |-> TRUE] : n \in unused }
            ELSE {}
    IN convertRaises \cup genRaises \cup uploadRaises \cup returns

\* What every handler below leaves alone.
UnchangedByLoads ==
    UNCHANGED <<cameraVars, pointerVars, modeVars, glStateVars, drawVars, subdivide>>

\* The part of a handler that is the call self.preview.loadTexture(key, img).
CallLoadTexture(key, img, outcomes) ==
    \E o \in LoadTexture(textures, gpu, key, img, outcomes) :
        /\ textures' = o.textures
        /\ gpu' = o.gpu
        /\ gl_log' = o.log
        /\ update_pending' = (update_pending \/ o.updated)

\* browseFaceImage(face), for a path chosen and copied to temp
\* (copyToTemp resizes the picked image to 512 x 512).
BrowseFaceImage(face, outcomes) ==
    /\ six_mode
    /\ \E src \in SourceImages :
         LET img == Resize512(src)
         IN /\ face_images' = [face_images EXCEPT ![face] = Some(img)]
            /\ CallLoadTexture(face, img, outcomes)
    /\ UNCHANGED stretch_image
    /\ UnchangedByLoads

\* rotateImage(face)
RotateImage(face, outcomes) ==
    /\ six_mode
    /\ ~IsNone(face_images[face])
    /\ LET img == RotateImg(Val(face_images[face]))
       IN /\ face_images' = [face_images EXCEPT ![face] = Some(img)]
          /\ CallLoadTexture(face, img, outcomes)
    /\ UNCHANGED stretch_image
    /\ UnchangedByLoads

\* flipImage(face)
FlipImage(face, outcomes) ==
    /\ six_mode
    /\ ~IsNone(face_images[face])
    /\ LET img == FlipImg(Val(face_images[face]))
       IN /\ face_images' = [face_images EXCEPT ![face] = Some(img)]
          /\ CallLoadTexture(face, img, outcomes)
    /\ UNCHANGED stretch_image
    /\ UnchangedByLoads

\* browseStretchImage, for a path chosen
BrowseStretchImage(outcomes) ==
    /\ ~six_mode
    /\ \E src \in SourceImages :
         LET img == Resize512(src)
         IN /\ stretch_image' = Some(img)
            /\ CallLoadTexture(StretchKey, img, outcomes)
    /\ UNCHANGED face_images
    /\ UnchangedByLoads

\* rotateStretchImage
RotateStretchImage(outcomes) ==
    /\ ~six_mode
    /\ ~IsNone(stretch_image)
    /\ LET img == RotateImg(Val(stretch_image))
       IN /\ stretch_image' = Some(img)
          /\ CallLoadTexture(StretchKey, img, outcomes)
    /\ UNCHANGED face_images
    /\ UnchangedByLoads

\* flipStretchImage
FlipStretchImage(outcomes) ==
    /\ ~six_mode
    /\ ~IsNone(stretch_image)
    /\ LET img == FlipImg(Val(stretch_image))
       IN /\ stretch_image' = Some(img)
          /\ CallLoadTexture(StretchKey, img, outcomes)
    /\ UNCHANGED face_images
    /\ UnchangedByLoads

RECURSIVE BulkImport(_, _, _)
\* The loop of bulkImportImages over the files of the folder that end in
\* <face>.png; `listing` is the face each such file matches, in os.listdir
\* order.  st is [face_images, textures, gpu, log, raised, updated]; an
\* exception of loadTexture leaves the loop.
BulkImport(st, listing, outcomes) ==
    IF listing = <<>> \/ st.raised THEN {st}
    ELSE LET face == Head(listing)
             srcs == SourceImages
         IN UNION { UNION { BulkImport(
                        [face_images |-> [st.face_images EXCEPT
                                             ![face] = Some(Resize512(src))],
                         textures |-> o.textures,
                         gpu |-> o.gpu,
                         log |-> st.log \o o.log,
                         raised |-> o.raised,
                         updated |-> st.updated \/ o.updated],
                        Tail(listing), outcomes)
                      : o \in LoadTexture(st.textures, st.gpu, face,
                                          Resize512(src), outcomes) }
                    : src \in srcs }

\* The folders a bulk import can be pointed at: 1..MaxBulk matching files.
Listings == UNION { [1..n -> InputFaces] : n \in 1..MaxBulk }

\* bulkImportImages (its button is enabled in both modes)
BulkImportImages(listing, outcomes) ==
    /\ \E st \in BulkImport([face_images |-> face_images, textures |-> textures,
                             gpu |-> gpu, log |-> <<>>, raised |-> FALSE,
                             updated |-> FALSE], listing, outcomes) :
         /\ face_images' = st.face_images
         /\ textures' = st.textures
         /\ gpu' = st.gpu
         /\ gl_log' = st.log
         /\ update_pending' = (update_pending \/ st.updated)
    /\ UNCHANGED stretch_image
    /\ UnchangedByLoads

UpdateModeKeepsCache(six) ==
    /\ six_mode' = six
    /\ use_spherical_uv' = ~six
    /\ update_pending' = TRUE
    /\ gl_log' = <<>>
    /\ UNCHANGED <<textures, gpu>>
    /\ UNCHANGED <<cameraVars, pointerVars, imageVars, glStateVars, drawVars, subdivide>>

\* updateMode, run by a click on either radio button; six is
\* radio_six.isChecked() after the click.
UpdateMode(six) ==
    /\ six_mode' = six
    /\ textures' = EmptyDict
    /\ use_spherical_uv' = ~six
    /\ update_pending' = TRUE
    /\ gl_log' = <<>>
    /\ UNCHANGED gpu
    /\ UNCHANGED <<cameraVars, pointerVars, imageVars, glStateVars, drawVars, subdivide>>

(* ------------------------------- Init ---------------------------------- *)

NoEvent == [phase |-> "none", x |-> 0, y |-> 0]

\* SkyboxGenerator.__init__ / initUI (which ends with updateMode() in
\* six-image mode), SkyboxPreview.__init__ and initializeGL, with
\* self.subdivide = sub.
InitState(sub) ==
    /\ rot_x = InitRotX
    /\ rot_y = InitRotY
    /\ last_pos = None
    /\ textures = EmptyDict
    /\ use_spherical_uv = FALSE
    /\ subdivide = sub
    /\ face_images = [f \in FACE_NAMES |-> None]
    /\ stretch_image = None
    /\ six_mode = TRUE
    /\ update_pending = TRUE
    /\ gpu = EmptyDict
    /\ depth_mask = TRUE
    /\ cull_face = TRUE
    /\ gl_log = <<>>
    /\ event = NoEvent
    /\ drag = None
    /\ draw_pc = "idle"
    /\ draw_verts = <<>>
    /\ draw_i = 0
    /\ draw_j = 0

Init == InitState(DefaultSubdivide)

(* ------------------- drawFaceSpherical, step by step ------------------- *)

\* lerp3D(a, b, num/den), times den: the numerators of the result.
Lerp3D(a, b, num, den) == [k \in 1..3 |-> a[k] * den + (b[k] - a[k]) * num]

\* The grid point of row i, column j: lerp3D(lerp3D(v0, v1, s),
\* lerp3D(v3, v2, s), t) with s = j/sub and t = i/sub, times sub * sub.
GridPoint(verts_idx, i, j, sub) ==
    LET v0 == Vertices[verts_idx[1] + 1]
        v1 == Vertices[verts_idx[2] + 1]
        v2 == Vertices[verts_idx[3] + 1]
        v3 == Vertices[verts_idx[4] + 1]
    IN Lerp3D(Lerp3D(v0, v1, j, sub), Lerp3D(v3, v2, j, sub), i, sub)

\* range(sub): the strips of one face.
Strips(sub) == sub

ColumnsOffByOne(sub) == sub

\* range(sub + 1): the columns of one strip.
Columns(sub) == sub + 1

\* Everything but the GL call log and the position inside the draw.
UnchangedByDraw ==
    UNCHANGED <<cameraVars, pointerVars, cacheVars, imageVars, modeVars,
                glStateVars, subdivide, update_pending>>

\* drawFaceSpherical(vertices, verts_idx) is entered for a face.
DrawFaceSphericalEnter(f) ==
    /\ draw_pc = "idle"
    /\ draw_pc' = "for_i"
    /\ draw_verts' = FaceVerts(f)
    /\ draw_i' = 0
    /\ draw_j' = 0
    /\ gl_log' = <<>>
    /\ UnchangedByDraw

\* for i in range(sub): glBegin(GL_TRIANGLE_STRIP), or the loop is over.
DrawFaceSphericalOuter ==
    /\ draw_pc = "for_i"
    /\ IF draw_i < Strips(subdivide)
       THEN /\ gl_log' = Append(gl_log, <<"glBegin", "GL_TRIANGLE_STRIP">>)
            /\ draw_j' = 0
            /\ draw_pc' = "for_j"
       ELSE /\ draw_pc' = "return"
            /\ UNCHANGED <<gl_log, draw_j>>
    /\ UNCHANGED <<draw_i, draw_verts>>
    /\ UnchangedByDraw

\* for j in range(sub + 1): two vertices, each after its texture coordinate
\* (cubeToSphereUV of the same point); after the last column, glEnd().
DrawFaceSphericalInner ==
    /\ draw_pc = "for_j"
    /\ IF draw_j < Columns(subdivide)
       THEN LET pA == GridPoint(draw_verts, draw_i, draw_j, subdivide)
                pB == GridPoint(draw_verts, draw_i + 1, draw_j, subdivide)
            IN /\ gl_log' = gl_log \o << <<"glTexCoord2f", pA>>, <<"glVertex3f", pA>>,
                                         <<"glTexCoord2f", pB>>, <<"glVertex3f", pB>> >>
               /\ draw_j' = draw_j + 1
               /\ UNCHANGED <<draw_i, draw_pc>>
       ELSE /\ gl_log' = Append(gl_log, <<"glEnd">>)
            /\ draw_i' = draw_i + 1
            /\ draw_pc' = "for_i"
            /\ UNCHANGED draw_j
    /\ UNCHANGED draw_verts
    /\ UnchangedByDraw

\* drawFaceSpherical returns.
DrawFaceSphericalReturn ==
    /\ draw_pc = "return"
    /\ draw_pc' = "idle"
    /\ UNCHANGED <<gl_log, draw_verts, draw_i, draw_j>>
    /\ UnchangedByDraw

(* --------------------------- specifications ---------------------------- *)

\* The pointer handlers and the render loop.
NextPointer ==
    \/ \E x \in Coords, y \in Coords : MousePressEvent(x, y)
    \/ \E x \in Coords, y \in Coords : MouseMoveEvent(x, y)
    \/ \E x \in Coords, y \in Coords : MouseReleaseEvent(x, y)
    \/ PaintGL

SpecPointer == Init /\ [][NextPointer]_vars

\* The image handlers of both modes, bulk import and the mode switch.
ImageHandlers(outcomes) ==
    \/ \E f \in InputFaces : BrowseFaceImage(f, outcomes)
    \/ \E f \in InputFaces : RotateImage(f, outcomes)
    \/ \E f \in InputFaces : FlipImage(f, outcomes)
    \/ BrowseStretchImage(outcomes)
    \/ RotateStretchImage(outcomes)
    \/ FlipStretchImage(outcomes)
    \/ \E l \in Listings : BulkImportImages(l, outcomes)
    \/ \E six \in BOOLEAN : UpdateMode(six)

\* Every handler; loadTexture may raise at any of its three points.
Next ==
    \/ NextPointer
    \/ ImageHandlers(AllOutcomes)

Spec == Init /\ [][Next]_vars

\* Every image handler, the mode switch and the render loop, every upload
\* returning normally.
NextOK ==
    \/ \E f \in InputFaces : BrowseFaceImage(f, OnlySuccess)
    \/ \E f \in InputFaces : RotateImage(f, OnlySuccess)
    \/ \E f \in InputFaces : FlipImage(f, OnlySuccess)
    \/ BrowseStretchImage(OnlySuccess)
    \/ RotateStretchImage(OnlySuccess)
    \/ FlipStretchImage(OnlySuccess)
    \/ \E l \in Listings : BulkImportImages(l, OnlySuccess)
    \/ \E six \in BOOLEAN : UpdateMode(six)
    \/ PaintGL

SpecOK == Init /\ [][NextOK]_vars

\* Sequences of uploads for the faces (browse, rotate, flip, bulk import),
\* each returning normally, and the render loop.
NextLoads ==
    \/ \E f \in InputFaces : BrowseFaceImage(f, OnlySuccess)
    \/ \E f \in InputFaces : RotateImage(f, OnlySuccess)
    \/ \E f \in InputFaces : FlipImage(f, OnlySuccess)
    \/ \E l \in Listings : BulkImportImages(l, OnlySuccess)
    \/ PaintGL

SpecLoads == Init /\ [][NextLoads]_vars

\* The same uploads, each of which may raise, and the render loop.
NextFaults ==
    \/ \E f \in InputFaces : BrowseFaceImage(f, AllOutcomes)
    \/ \E f \in InputFaces : RotateImage(f, AllOutcomes)
    \/ \E f \in InputFaces : FlipImage(f, AllOutcomes)
    \/ \E l \in Listings : BulkImportImages(l, AllOutcomes)
    \/ PaintGL

SpecFaults == Init /\ [][NextFaults]_vars

\* The image buttons of both modes (no bulk import), the mode switch and
\* the render loop, every upload returning normally.
NextStretch ==
    \/ \E f \in InputFaces : BrowseFaceImage(f, OnlySuccess)
    \/ \E f \in InputFaces : RotateImage(f, OnlySuccess)
    \/ \E f \in InputFaces : FlipImage(f, OnlySuccess)
    \/ BrowseStretchImage(OnlySuccess)
    \/ RotateStretchImage(OnlySuccess)
    \/ FlipStretchImage(OnlySuccess)
    \/ \E six \in BOOLEAN : UpdateMode(six)
    \/ PaintGL

SpecStretch == Init /\ [][NextStretch]_vars

\* drawFaceSpherical for every face and every tessellation factor 1..MaxSub.
InitTess == \E n \in 1..MaxSub : InitState(n)

NextTess ==
    \/ \E f \in FACE_NAMES : DrawFaceSphericalEnter(f)
    \/ DrawFaceSphericalOuter
    \/ DrawFaceSphericalInner
    \/ DrawFaceSphericalReturn

SpecTess == InitTess /\ [][NextTess]_vars

(* ------------------------------- claims -------------------------------- *)

\* The handler that ran last was paintGL: gl_log is one frame.
IsFrame == gl_log # <<>> /\ gl_log[1][1] = "glClear"

\* The positions of gl_log holding a call of the given name.
CallsOf(name) == {k \in 1..Len(gl_log) : gl_log[k][1] = name}

DrawCalls == CallsOf("drawFaceFlat") \cup CallsOf("drawFaceSpherical")

\* C1: in every state reachable from the initial camera state by any sequence
\* of pointer press, move and release events, the pitch rot_x lies in
\* [-90, 90].
C1_PitchInRange == rot_x >= -90 /\ rot_x <= 90

\* C1: a pointer-move has driven the pitch past the lower limit and it was
\* clamped there (20 plus multiples of the coordinate step never equals -90).
C1_Witness == event.phase = "moved" /\ rot_x = -90 /\ ~IsNone(last_pos)

\* C2: under any sequence of uploads, every cache entry names a live GL
\* texture, every live GL texture is the cache entry of exactly one face, and
\* a call that replaces a face's texture releases the old one before it
\* creates the new one: so each face has exactly one live GPU resource, the
\* one stored in the cache.
C2_OneLiveTexturePerFace ==
    /\ \A k \in DOMAIN textures : textures[k] \in DOMAIN gpu
    /\ \A n \in DOMAIN gpu :
         Cardinality({k \in DOMAIN textures : textures[k] = n}) = 1
    /\ Cardinality(DOMAIN gpu) = Cardinality(DOMAIN textures)
    /\ \A d \in CallsOf("glDeleteTextures") :
         /\ d < Len(gl_log)
         /\ gl_log[d + 1][1] = "glGenTextures"

\* C2: the handler that ran last replaced the texture of a face that already
\* had one (it released a texture), and two faces hold textures.
C2_Witness ==
    /\ CallsOf("glDeleteTextures") # {}
    /\ Cardinality(DOMAIN textures) = 2
    /\ face_images["ft"] # Some(Resize512([w |-> 4, h |-> 2,
                                          px |-> <<"a", "b", "c", "d">>]))
    /\ ~IsNone(face_images["ft"])

\* C3: after any sequence of uploads and mode switches, every GL texture that
\* was created and not released is the current cache entry of some key (a mode
\* switch releases every texture the cache held).
C3_ClearReleasesTextures ==
    \A n \in DOMAIN gpu : \E k \in DOMAIN textures : textures[k] = n

\* C4: a pointer-move that follows a pointer-press at any position applies its
\* delta from the press position to pitch (clamped) and yaw; a pointer-move
\* that follows a release, or comes before any press, leaves pitch and yaw
\* unchanged.
C4_DragStateMachine ==
    [][ /\ (event.phase = "pressed" /\ event'.phase = "moved")
           => /\ rot_y' = rot_y + (event'.x - event.x)
              /\ rot_x' = LET p == rot_x + (event'.y - event.y)
                          IN IF p > 90 THEN 90 ELSE IF p < -90 THEN -90 ELSE p
        /\ (event.phase \in {"released", "none"} /\ event'.phase = "moved")
           => (rot_x' = rot_x /\ rot_y' = rot_y) ]_vars

\* C5: during a drag the yaw equals its value at the press plus the sum of the
\* x-deltas of the moves, i.e. plus (x of the last pointer event - x of the
\* press); it is never clamped or wrapped.
C5_YawIsSumOfDeltas ==
    ~IsNone(drag) => rot_y = Val(drag).yaw + (event.x - Val(drag).x)

\* C6 (as claimed): a mode switch leaves every cache entry as it was.
C6_ModeSwitchKeepsTextures ==
    [][ (six_mode' # six_mode) => textures' = textures ]_vars

\* C6 (amended): a mode switch empties the texture cache -- every key is absent
\* after it -- and selects the other UV-mapping path: spherical in
\* single-image mode, flat in six-image mode.
C6_ModeSwitchEmptiesCache ==
    [][ (six_mode' # six_mode)
        => /\ DOMAIN textures' = {}
           /\ use_spherical_uv' = ~use_spherical_uv
           /\ use_spherical_uv' = ~six_mode' ]_vars

\* C6: the mode was just switched to single-image while textures were loaded
\* (they are still on the GPU) and the cache is empty.
C6_Witness ==
    /\ ~six_mode
    /\ use_spherical_uv
    /\ gl_log = <<>>
    /\ DOMAIN gpu # {}
    /\ DOMAIN textures = {}
    /\ IsNone(stretch_image)

\* C7: whatever loadTexture calls failed, every cache entry refers to a live
\* GL texture (a failed upload leaves the face's entry on the texture it held
\* before), so no frame binds a name whose texture was released.
C7_FailedUploadKeepsTexture ==
    \A k \in DOMAIN textures : textures[k] \in DOMAIN gpu

\* C8: a frame draws each of the six faces exactly once, in the routine of the
\* current mode, right after binding the face's cache entry, or 0 when it has
\* none; depth writes and face culling are off at every draw and on again when
\* paintGL has returned.
C8_FrameDrawsSixFaces ==
    IsFrame =>
      /\ Cardinality(DrawCalls) = 6
      /\ Cardinality(CallsOf("glBindTexture")) = 6
      /\ \A f \in FACE_NAMES :
           /\ Cardinality({k \in DrawCalls : gl_log[k][2] = FaceVerts(f)}) = 1
           /\ \A k \in DrawCalls :
                gl_log[k][2] = FaceVerts(f)
                => /\ gl_log[k - 1] =
                        <<"glBindTexture",
                          IF f \in DOMAIN textures THEN textures[f] ELSE 0>>
                   /\ gl_log[k][1] = IF use_spherical_uv
                                     THEN "drawFaceSpherical" ELSE "drawFaceFlat"
      /\ \A k \in DrawCalls :
           /\ ~DepthMaskAfter(gl_log, k, TRUE)
           /\ ~CullFaceAfter(gl_log, k, TRUE)
      /\ depth_mask
      /\ cull_face

\* C8: a frame in which one face has a texture and the others have none.
C8_Witness ==
    /\ IsFrame
    /\ "up" \in DOMAIN textures
    /\ "ft" \notin DOMAIN textures
    /\ \E k \in CallsOf("glBindTexture") : gl_log[k][2] # 0
    /\ \E k \in CallsOf("glBindTexture") : gl_log[k][2] = 0

\* The well-formed output of drawFaceSpherical for tessellation factor n:
\* n blocks of glBegin, 2 * (n + 1) pairs (glTexCoord2f, glVertex3f), glEnd.
StripsOf(log, n) ==
    LET block == 4 * (n + 1) + 2
    IN /\ Len(log) = n * block
       /\ \A k \in 1..Len(log) :
            LET p == (k - 1) % block
            IN log[k][1] = IF p = 0 THEN "glBegin"
                           ELSE IF p = block - 1 THEN "glEnd"
                           ELSE IF p % 2 = 1 THEN "glTexCoord2f"
                           ELSE "glVertex3f"

\* C9: when drawFaceSpherical returns for tessellation factor N >= 1 it has
\* emitted exactly N triangle strips, each opened and closed once, each of
\* N + 1 columns of two vertices, every vertex right after one texture
\* coordinate.
C9_StripsAndColumns ==
    draw_pc = "return"
    => /\ StripsOf(gl_log, subdivide)
       /\ Cardinality(CallsOf("glBegin")) = subdivide
       /\ Cardinality(CallsOf("glEnd")) = subdivide
       /\ Cardinality(CallsOf("glVertex3f")) = subdivide * 2 * (subdivide + 1)
       /\ Cardinality(CallsOf("glTexCoord2f")) = Cardinality(CallsOf("glVertex3f"))

\* C9: drawFaceSpherical has returned for N = 2: 2 strips of 6 vertices.
C9_Witness ==
    /\ draw_pc = "return"
    /\ subdivide = 2
    /\ Cardinality(CallsOf("glBegin")) = 2
    /\ Cardinality(CallsOf("glVertex3f")) = 12

\* C10: in single-image mode, reached and used through the mode switch and the
\* stretch image's browse, rotate and flip, no face key has a cache entry and
\* a frame binds texture 0 for all six faces, never the 'stretch' entry, which
\* stays a live GL texture.
C10_StretchNeverBound ==
    /\ ~six_mode =>
         /\ DOMAIN textures \subseteq {"stretch"}
         /\ IsFrame =>
              /\ Cardinality(CallsOf("glBindTexture")) = 6
              /\ \A k \in CallsOf("glBindTexture") : gl_log[k][2] = 0
    /\ "stretch" \in DOMAIN textures =>
         /\ textures["stretch"] \in DOMAIN gpu
         /\ IsFrame =>
              \A k \in CallsOf("glBindTexture") : gl_log[k][2] # textures["stretch"]

\* C10: a frame drawn in single-image mode after the stretch image was loaded
\* and rotated.
C10_Witness ==
    /\ ~six_mode
    /\ IsFrame
    /\ "stretch" \in DOMAIN textures
    /\ ~IsNone(stretch_image)
    /\ Val(stretch_image).px = <<"c", "a", "d", "b">>

====
